---- MODULE Spec2Model ----
(***************************************************************************)
(* Model of unittestgeneration.py: a batch run that discovers Python       *)
(* sources with glob, asks a remote service for tests of each one,         *)
(* extracts the code of the answer and writes it under tests/.             *)
(*                                                                         *)
(* A Python str is a sequence of one-character strings.  In the texts of   *)
(* the response extractor the word "python" is a single element; every     *)
(* pattern the code searches for (the fence of three backquotes, alone or  *)
(* followed by "python") is a sequence of whole elements, so searching and *)
(* splitting act as they do on str.  The backquote character is the        *)
(* element BQ.                                                             *)
(***************************************************************************)
EXTENDS Integers, Sequences, FiniteSets, TLC

VARIABLES
    pc,             \* position in main(): "init" "discover" "loop", then "done", or
                    \* "exit_connect" when the client could not be built; in a
                    \* function run, "call" then "returned"
    tree,           \* regular files of the working tree when the run starts
    fs,             \* regular files of the working tree now: path -> content
    dirs,           \* directories of the working tree now
    py_files,       \* main's py_files, as the set of its elements
    todo,           \* the part of sorted(py_files) the loop has not reached
    log,            \* one record per finished loop iteration
    success_count,
    error_count,
    exit_code,      \* -1 while the process runs
    requests,       \* calls of client.chat.completions.create, per source file
    arg,            \* argument of the function under study (function runs)
    ret             \* its result, once called

vars == <<pc, tree, fs, dirs, py_files, todo, log, success_count,
          error_count, exit_code, requests, arg, ret>>

(***************************************************************************)
(* Bounds of the model.                                                    *)
(***************************************************************************)
MaxDepth == 3
MaxFiles == 3
MaxPieces == 6

(***************************************************************************)
(* Python str operations.                                                  *)
(***************************************************************************)
StartsWith(s, pre) ==
    Len(s) >= Len(pre) /\ SubSeq(s, 1, Len(pre)) = pre

EndsWith(s, suf) ==
    Len(s) >= Len(suf) /\ SubSeq(s, Len(s) - Len(suf) + 1, Len(s)) = suf

\* s[i:] for a 0-based i, 0 <= i <= len(s)
From(s, i) == SubSeq(s, i + 1, Len(s))

\* s[:i] for a 0-based i, 0 <= i <= len(s)
UpTo(s, i) == SubSeq(s, 1, i)

RECURSIVE FindFrom(_, _, _)
\* str.find(pat, start): the least 0-based index >= start where pat occurs, or -1
FindFrom(s, pat, start) ==
    IF start + Len(pat) > Len(s) THEN -1
    ELSE IF SubSeq(s, start + 1, start + Len(pat)) = pat THEN start
    ELSE FindFrom(s, pat, start + 1)

Find(s, pat) == FindFrom(s, pat, 0)

RECURSIVE RFindFrom(_, _, _)
\* the greatest 0-based index <= start where pat occurs, or -1
RFindFrom(s, pat, start) ==
    IF start < 0 THEN -1
    ELSE IF SubSeq(s, start + 1, start + Len(pat)) = pat THEN start
    ELSE RFindFrom(s, pat, start - 1)

\* str.rfind(pat)
RFind(s, pat) == RFindFrom(s, pat, Len(s) - Len(pat))

\* pat in s
Contains(s, pat) == Find(s, pat) >= 0

RECURSIVE Split(_, _)
\* str.split(sep), sep not empty: the list of the pieces between the occurrences
\* of sep, scanned from the left without overlap
Split(s, sep) ==
    LET i == Find(s, sep)
    IN  IF i < 0 THEN <<s>>
        ELSE <<UpTo(s, i)>> \o Split(From(s, i + Len(sep)), sep)

Whitespace == {" ", "\n"}

RECURSIVE LStrip(_)
LStrip(s) ==
    IF s # <<>> /\ Head(s) \in Whitespace THEN LStrip(Tail(s)) ELSE s

RECURSIVE RStrip(_)
RStrip(s) ==
    IF s # <<>> /\ s[Len(s)] \in Whitespace THEN RStrip(UpTo(s, Len(s) - 1)) ELSE s

\* str.strip()
Strip(s) == RStrip(LStrip(s))

RECURSIVE RStripSep(_, _)
\* str.rstrip(c) for a one-character c
RStripSep(s, c) ==
    IF s # <<>> /\ s[Len(s)] = c THEN RStripSep(UpTo(s, Len(s) - 1), c) ELSE s

\* the backquote character, U+0060
BQ == "bq"

\* The characters of the model in code point order.
CodePoints ==
    <<"\n", " ", ".", "/", "_", BQ, "a", "b", "c", "d", "e", "h", "i", "k", "l",
      "m", "n", "o", "p", "r", "s", "t", "u", "v", "x", "y">>

\* ord(c), up to an increasing renumbering
Ord(c) == CHOOSE i \in 1..Len(CodePoints) : CodePoints[i] = c

RECURSIVE StrLess(_, _)
\* a < b on str: lexicographic by code point
StrLess(a, b) ==
    IF b = <<>> THEN FALSE
    ELSE IF a = <<>> THEN TRUE
    ELSE IF Head(a) # Head(b) THEN Ord(Head(a)) < Ord(Head(b))
    ELSE StrLess(Tail(a), Tail(b))

RECURSIVE SortedDescending(_)
\* A variant that sorts in descending order.
SortedDescending(S) ==
    IF S = {} THEN <<>>
    ELSE LET m == CHOOSE x \in S : \A y \in S \ {x} : StrLess(y, x)
         IN  <<m>> \o SortedDescending(S \ {m})

RECURSIVE Sorted(_)
\* sorted(S) for a set S of str
Sorted(S) ==
    IF S = {} THEN <<>>
    ELSE LET m == CHOOSE x \in S : \A y \in S \ {x} : StrLess(x, y)
         IN  <<m>> \o Sorted(S \ {m})

(***************************************************************************)
(* os.path on POSIX (os.sep = "/").                                        *)
(***************************************************************************)
SEP == "/"
EXTSEP == "."

\* head of os.path.split: the text up to the last separator, its trailing
\* separators stripped unless it consists of separators only
SplitHead(p) ==
    LET head == UpTo(p, RFind(p, <<SEP>>) + 1)
    IN  IF head # <<>> /\ (\E k \in 1..Len(head) : head[k] # SEP)
        THEN RStripSep(head, SEP)
        ELSE head

\* os.path.split(p) = <<head, tail>>
os_path_split(p) == <<SplitHead(p), From(p, RFind(p, <<SEP>>) + 1)>>

os_path_basename(p) == From(p, RFind(p, <<SEP>>) + 1)

os_path_dirname(p) == SplitHead(p)

\* os.path.splitext(p) = <<root, ext>>: ext starts at the last dot of the last
\* component, unless only dots precede that dot in the component
os_path_splitext(p) ==
    LET sepIndex == RFind(p, <<SEP>>)
        dotIndex == RFind(p, <<EXTSEP>>)
    IN  IF dotIndex > sepIndex
           /\ \E k \in (sepIndex + 1)..(dotIndex - 1) : p[k + 1] # EXTSEP
        THEN <<UpTo(p, dotIndex), From(p, dotIndex)>>
        ELSE <<p, <<>>>>

\* one step of the loop of os.path.join
JoinStep(path, b) ==
    IF StartsWith(b, <<SEP>>) THEN b
    ELSE IF path = <<>> \/ EndsWith(path, <<SEP>>) THEN path \o b
    ELSE path \o <<SEP>> \o b

os_path_join2(a, b) == JoinStep(a, b)

os_path_join3(a, b, c) == JoinStep(JoinStep(a, b), c)

(***************************************************************************)
(* Words.                                                                  *)
(***************************************************************************)
w_src == <<"s", "r", "c">>
w_tests == <<"t", "e", "s", "t", "s">>
w_test_ == <<"t", "e", "s", "t", "_">>
w_dotpy == <<".", "p", "y">>
w_pkg == <<"p", "k", "g">>
w_mod_py == <<"m", "o", "d", ".", "p", "y">>
w_test_mod_py == w_test_ \o w_mod_py

(***************************************************************************)
(* to_test_path                                                            *)
(***************************************************************************)
\* A variant that strips every leading "src/", not only the first.
RECURSIVE to_test_path_strip_all(_)
to_test_path_strip_all(py_file) ==
    IF StartsWith(py_file, w_src \o <<SEP>>)
    THEN to_test_path_strip_all(From(py_file, Len(w_src \o <<SEP>>)))
    ELSE LET sp == os_path_split(py_file)
             ne == os_path_splitext(sp[2])
         IN  os_path_join3(w_tests, sp[1], w_test_ \o ne[1] \o ne[2])

\* A variant that puts the test file beside the source, not under tests.
to_test_path_beside(py_file) ==
    LET sp == os_path_split(py_file)
        ne == os_path_splitext(sp[2])
    IN  os_path_join2(sp[1], w_test_ \o ne[1] \o ne[2])

to_test_path(py_file) ==
    LET rel == IF StartsWith(py_file, w_src \o <<SEP>>)
               THEN From(py_file, Len(w_src \o <<SEP>>))
               ELSE py_file
        sp == os_path_split(rel)
        dirname == sp[1]
        filename == sp[2]
        ne == os_path_splitext(filename)
        name == ne[1]
        ext == ne[2]
        test_filename == w_test_ \o name \o ext
    IN  os_path_join3(w_tests, dirname, test_filename)

(***************************************************************************)
(* The working tree.  A tree is the set of its regular files, each a       *)
(* relative path of non-empty components; its directories are the proper   *)
(* prefixes of those paths.                                                *)
(***************************************************************************)
w_venv == <<"v", "e", "n", "v">>
w_env == <<"e", "n", "v">>
w_build == <<"b", "u", "i", "l", "d">>
w_dist == <<"d", "i", "s", "t">>
w_pycache == <<"_", "_", "p", "y", "c", "a", "c", "h", "e", "_", "_">>
w_d_py == <<"d">> \o w_dotpy
w_dot_h_py == <<".", "h">> \o w_dotpy
w_mod_txt == <<"m", "o", "d", ".", "t", "x", "t">>

DirNames ==
    {w_src, w_pkg, w_tests, w_venv, <<".">> \o w_venv, w_env, <<".">> \o w_env,
     w_build, w_dist, w_pycache, w_d_py}

FileNames == {w_mod_py, w_test_mod_py, w_dot_h_py, w_mod_txt}

RECURSIVE PathOf(_)
\* the path of a non-empty sequence of components
PathOf(segs) ==
    IF Len(segs) = 1 THEN segs[1]
    ELSE segs[1] \o <<SEP>> \o PathOf(Tail(segs))

RECURSIVE DirSeqs(_)
\* the sequences of at most n directory names
DirSeqs(n) ==
    IF n = 0 THEN {<<>>}
    ELSE LET shorter == DirSeqs(n - 1)
         IN  shorter \cup {<<d>> \o ds : d \in DirNames, ds \in {x \in shorter : Len(x) = n - 1}}

\* every file path of at most MaxDepth components
Universe == {PathOf(ds \o <<f>>) : ds \in DirSeqs(MaxDepth - 1), f \in FileNames}

\* the files of the trees that hold several sources, two pairs of which
\* map to one test path, and two test files that exist before the run
CorePaths ==
    {w_mod_py,
     PathOf(<<w_src, w_mod_py>>),
     PathOf(<<w_pkg, w_mod_py>>),
     PathOf(<<w_src, w_pkg, w_mod_py>>),
     PathOf(<<w_src, w_test_mod_py>>),
     PathOf(<<w_tests, w_pkg, w_test_mod_py>>)}

Trees ==
    {{p} : p \in Universe}
    \cup {t \in SUBSET CorePaths : Cardinality(t) <= MaxFiles}

\* path.split(os.sep)
Segs(p) == Split(p, <<SEP>>)

\* files and directories of tree t, as component sequences
Entries(t) == UNION {{SubSeq(Segs(p), 1, k) : k \in 1..Len(Segs(p))} : p \in t}

IsPrefix(d, e) == Len(d) <= Len(e) /\ SubSeq(e, 1, Len(d)) = d

\* os.path.isdir
IsDir(t, e) == \E p \in t : IsPrefix(e, Segs(p)) /\ Len(Segs(p)) > Len(e)

\* os.path.isfile
IsFile(t, p) == p \in t

DirsOf(t) == {PathOf(e) : e \in {x \in Entries(t) : IsDir(t, x)}}

(***************************************************************************)
(* glob.glob                                                               *)
(***************************************************************************)
\* glob._ishidden
IsHidden(name) == StartsWith(name, <<".">>)

\* fnmatch of a name against "*.py"
FnMatchPy(name) == EndsWith(name, w_dotpy)

\* the names in directory d (a component sequence; <<>> is the working directory)
ListDir(t, d) ==
    {e[Len(e)] : e \in {x \in Entries(t) : Len(x) = Len(d) + 1 /\ IsPrefix(d, x)}}

\* glob._glob1: the names in d that match "*.py", hidden names left out
Glob1(t, d) == {n \in ListDir(t, d) : ~IsHidden(n) /\ FnMatchPy(n)}

\* glob._glob2 / _rlistdir: d and every directory below it reached through
\* directories that are not hidden
RListDir(t, d) ==
    {d} \cup {e \in Entries(t) :
                /\ IsDir(t, e)
                /\ IsPrefix(d, e)
                /\ \A k \in (Len(d) + 1)..Len(e) : ~IsHidden(e[k])}

\* glob.glob("src/**/*.py", recursive=True)
GlobSrcRecursive(t) ==
    IF ~IsDir(t, <<w_src>>) THEN {}
    ELSE UNION {{PathOf(d \o <<n>>) : n \in Glob1(t, d)} : d \in RListDir(t, <<w_src>>)}

\* glob.glob("*.py", recursive=False)
GlobShallow(t) == {n : n \in Glob1(t, <<>>)}

\* glob.glob("**/*.py", recursive=True)
GlobRecursive(t) ==
    UNION {{PathOf(d \o <<n>>) : n \in Glob1(t, d)} : d \in RListDir(t, <<>>)}

(***************************************************************************)
(* main.should_skip and the selection of py_files                          *)
(***************************************************************************)
ExcludedNames ==
    {w_tests, w_venv, <<".">> \o w_venv, w_env, <<".">> \o w_env, w_build, w_dist,
     w_pycache}

\* A variant that leaves out the test on the base name.
should_skip_no_basename(path) ==
    LET parts == Segs(path)
    IN  \/ \E i \in 1..Len(parts) : StartsWith(parts[i], <<".">>)
        \/ \E i \in 1..Len(parts) : parts[i] \in ExcludedNames

should_skip(path) ==
    LET parts == Segs(path)
        base == os_path_basename(path)
    IN  IF \E i \in 1..Len(parts) : StartsWith(parts[i], <<".">>) THEN TRUE
        ELSE IF \E i \in 1..Len(parts) : parts[i] \in ExcludedNames THEN TRUE
        ELSE IF StartsWith(base, w_test_) THEN TRUE
        ELSE FALSE

\* candidates after the three candidates.update(...) calls
Candidates(t) == GlobSrcRecursive(t) \cup GlobShallow(t) \cup GlobRecursive(t)

\* py_files = [p for p in candidates if p.endswith(".py") and isfile(p) and not should_skip(p)]
Select(t) ==
    {p \in Candidates(t) : EndsWith(p, w_dotpy) /\ IsFile(t, p) /\ ~should_skip(p)}

(***************************************************************************)
(* extract_code_from_response                                              *)
(***************************************************************************)
FENCE == <<BQ, BQ, BQ>>
PYFENCE == FENCE \o <<"python">>

\* A variant that takes the text after the first fence of any kind.
extract_code_any_fence(content) ==
    IF Contains(content, FENCE)
    THEN Strip(Split(content, FENCE)[2])
    ELSE Strip(content)

extract_code_from_response(content) ==
    IF Contains(content, PYFENCE)
    THEN LET parts == Split(content, PYFENCE)
         IN  IF Len(parts) > 1
             THEN Strip(Split(parts[2], FENCE)[1])
             ELSE Strip(content)
    ELSE IF Contains(content, FENCE)
    THEN LET parts == Split(content, FENCE)
         IN  IF Len(parts) > 1
             THEN Strip(parts[2])
             ELSE Strip(content)
    ELSE Strip(content)

(***************************************************************************)
(* The remote service and the file system, as main() meets them.           *)
(***************************************************************************)
\* content of every file that exists before the run
ORIGINAL == <<"o">>

\* response.choices[0].message.content when the service returns no text
None == "None"

\* texts the service may return: code alone, and code in a tagged fenced block
Responses ==
    {<<"x", "\n", "x", "\n">>,
     <<"h", "\n">> \o PYFENCE \o <<"\n", "y", "\n">> \o FENCE}

NoResponse == "NoResponse"

\* the directories os.makedirs(d) makes sure of: d and the directories above it
Ancestors(d) ==
    LET segs == Segs(d)
    IN  {PathOf(SubSeq(segs, 1, k)) : k \in 1..Len(segs)}

\* those of them that do not exist yet, outermost first
Missing(d) == Sorted(Ancestors(d) \ dirs)

\* the source file the loop is at
py_file == Head(todo)

Outcome(kind, response) == [file |-> py_file, outcome |-> kind, response |-> response]

\* A variant in which a failure ends the loop.
FailedAborts(kind, response) ==
    /\ log' = Append(log, Outcome(kind, response))
    /\ error_count' = error_count + 1
    /\ todo' = <<>>
    /\ UNCHANGED <<pc, tree, py_files, success_count, exit_code, arg, ret>>

\* the except clause of the loop: the iteration ends as a failure
Failed(kind, response) ==
    /\ log' = Append(log, Outcome(kind, response))
    /\ error_count' = error_count + 1
    /\ todo' = Tail(todo)
    /\ UNCHANGED <<pc, tree, py_files, success_count, exit_code, arg, ret>>

InLoop == pc = "loop" /\ todo # <<>>

(***************************************************************************)
(* main()                                                                  *)
(***************************************************************************)
Init ==
    /\ pc = "init"
    /\ tree \in Trees
    /\ fs = [p \in tree |-> ORIGINAL]
    /\ dirs = DirsOf(tree)
    /\ py_files = {}
    /\ todo = <<>>
    /\ log = <<>>
    /\ success_count = 0
    /\ error_count = 0
    /\ exit_code = -1
    /\ requests = <<>>
    /\ arg = <<>>
    /\ ret = <<>>

\* the settings main() starts from: literals, none of them empty
endpoint == "endpoint"
api_key == "api_key"
deployment == "deployment"

\* all([endpoint, api_key, deployment])
AllSettings == endpoint # "" /\ api_key # "" /\ deployment # ""

\* AzureOpenAI(...) raises: sys.exit(1)
ConnectFails ==
    /\ pc = "init"
    /\ AllSettings
    /\ pc' = "exit_connect"
    /\ exit_code' = 1
    /\ UNCHANGED <<tree, fs, dirs, py_files, todo, log, success_count, error_count,
                   requests, arg, ret>>

\* the client is built
Connect ==
    /\ pc = "init"
    /\ AllSettings
    /\ pc' = "discover"
    /\ UNCHANGED <<tree, fs, dirs, py_files, todo, log, success_count, error_count,
                   exit_code, requests, arg, ret>>

\* A variant that treats an empty selection as an error.
DiscoverEmptyIsError ==
    /\ pc = "discover"
    /\ py_files' = Select(tree)
    /\ IF py_files' = {}
       THEN /\ pc' = "done"
            /\ exit_code' = 1
            /\ UNCHANGED <<todo, requests>>
       ELSE /\ pc' = "loop"
            /\ todo' = Sorted(py_files')
            /\ requests' = [p \in py_files' |-> 0]
            /\ UNCHANGED exit_code
    /\ UNCHANGED <<tree, fs, dirs, log, success_count, error_count, arg, ret>>

\* the three globs, the selection of py_files, and sys.exit(0) when it is empty
Discover ==
    /\ pc = "discover"
    /\ py_files' = Select(tree)
    /\ IF py_files' = {}
       THEN /\ pc' = "done"
            /\ exit_code' = 0
            /\ UNCHANGED <<todo, requests>>
       ELSE /\ pc' = "loop"
            /\ todo' = Sorted(py_files')
            /\ requests' = [p \in py_files' |-> 0]
            /\ UNCHANGED exit_code
    /\ UNCHANGED <<tree, fs, dirs, log, success_count, error_count, arg, ret>>

\* open() or f.read() of the source raises in generate_unit_test
ReadFails ==
    /\ InLoop
    /\ Failed("read_error", NoResponse)
    /\ UNCHANGED <<fs, dirs, requests>>

\* A variant that repeats a failed request once.
RequestFailsRetried ==
    /\ InLoop
    /\ requests' = [requests EXCEPT ![py_file] = @ + 2]
    /\ Failed("request_error", NoResponse)
    /\ UNCHANGED <<fs, dirs>>

\* client.chat.completions.create raises
RequestFails ==
    /\ InLoop
    /\ requests' = [requests EXCEPT ![py_file] = @ + 1]
    /\ Failed("request_error", NoResponse)
    /\ UNCHANGED <<fs, dirs>>

\* A variant that makes the test directories before it extracts the code.
ExtractFailsAfterMakedirs ==
    /\ InLoop
    /\ requests' = [requests EXCEPT ![py_file] = @ + 1]
    /\ dirs' = dirs \cup Ancestors(os_path_dirname(to_test_path(py_file)))
    /\ Failed("extract_error", None)
    /\ UNCHANGED fs

\* the service returns no text: extract_code_from_response(None) raises TypeError
ExtractFails ==
    /\ InLoop
    /\ requests' = [requests EXCEPT ![py_file] = @ + 1]
    /\ Failed("extract_error", None)
    /\ UNCHANGED <<fs, dirs>>

\* os.makedirs raises after it made the first made of the missing directories
MakedirsFails ==
    /\ InLoop
    /\ \E test_content \in Responses :
         LET test_file == to_test_path(py_file)
             missing == Missing(os_path_dirname(test_file))
         IN  \E made \in 0..(Len(missing) - 1) :
               /\ requests' = [requests EXCEPT ![py_file] = @ + 1]
               /\ dirs' = dirs \cup {missing[k] : k \in 1..made}
               /\ Failed("makedirs_error", test_content)
               /\ UNCHANGED fs

\* open(test_file, "w") raises: the file is not touched
OpenFails ==
    /\ InLoop
    /\ \E test_content \in Responses :
         LET test_file == to_test_path(py_file)
         IN  /\ requests' = [requests EXCEPT ![py_file] = @ + 1]
             /\ dirs' = dirs \cup Ancestors(os_path_dirname(test_file))
             /\ Failed("open_error", test_content)
             /\ UNCHANGED fs

\* f.write raises (or the flush at close): open has truncated the file, and a
\* proper prefix of the code is in it
WriteFails ==
    /\ InLoop
    /\ \E test_content \in Responses :
         LET test_code == extract_code_from_response(test_content)
             test_file == to_test_path(py_file)
         IN  \E n \in 0..(Len(test_code) - 1) :
               /\ requests' = [requests EXCEPT ![py_file] = @ + 1]
               /\ dirs' = dirs \cup Ancestors(os_path_dirname(test_file))
               /\ fs' = (test_file :> UpTo(test_code, n)) @@ fs
               /\ Failed("write_error", test_content)

\* the iteration runs to its end
Generated ==
    /\ InLoop
    /\ \E test_content \in Responses :
         LET test_code == extract_code_from_response(test_content)
             test_file == to_test_path(py_file)
         IN  /\ requests' = [requests EXCEPT ![py_file] = @ + 1]
             /\ dirs' = dirs \cup Ancestors(os_path_dirname(test_file))
             /\ fs' = (test_file :> test_code) @@ fs
             /\ log' = Append(log, Outcome("success", test_content))
             /\ success_count' = success_count + 1
             /\ todo' = Tail(todo)
             /\ UNCHANGED <<pc, tree, py_files, error_count, exit_code, arg, ret>>

\* A variant that exits with 0 whatever failed.
SummaryExitsZero ==
    /\ pc = "loop"
    /\ todo = <<>>
    /\ pc' = "done"
    /\ exit_code' = 0
    /\ UNCHANGED <<tree, fs, dirs, py_files, todo, log, success_count, error_count,
                   requests, arg, ret>>

\* the summary, sys.exit(1) when error_count > 0, and the end of main() otherwise
Summary ==
    /\ pc = "loop"
    /\ todo = <<>>
    /\ pc' = "done"
    /\ exit_code' = IF error_count > 0 THEN 1 ELSE 0
    /\ UNCHANGED <<tree, fs, dirs, py_files, todo, log, success_count, error_count,
                   requests, arg, ret>>

Next ==
    \/ ConnectFails
    \/ Connect
    \/ Discover
    \/ ReadFails
    \/ RequestFails
    \/ ExtractFails
    \/ MakedirsFails
    \/ OpenFails
    \/ WriteFails
    \/ Generated
    \/ Summary

Spec == Init /\ [][Next]_vars

(***************************************************************************)
(* Function runs: one call of to_test_path, or of                          *)
(* extract_code_from_response, on an argument drawn from a bounded set.    *)
(***************************************************************************)
NoRun ==
    /\ tree = {}
    /\ fs = <<>>
    /\ dirs = {}
    /\ py_files = {}
    /\ todo = <<>>
    /\ log = <<>>
    /\ success_count = 0
    /\ error_count = 0
    /\ exit_code = -1
    /\ requests = <<>>

w_a_b_py == <<"a", ".", "b">> \o w_dotpy
w_mod == <<"m", "o", "d">>

\* relative paths of at most MaxDepth components: those of Universe, and files
\* with two dots, with no extension, and named like the source root
PathInputs ==
    {PathOf(ds \o <<f>>) : ds \in DirSeqs(MaxDepth - 1),
                            f \in FileNames \cup {w_a_b_py, w_mod, w_src}}

InitToTestPath ==
    /\ pc = "call"
    /\ arg \in PathInputs
    /\ ret = <<>>
    /\ NoRun

CallToTestPath ==
    /\ pc = "call"
    /\ pc' = "returned"
    /\ ret' = to_test_path(arg)
    /\ UNCHANGED <<tree, fs, dirs, py_files, todo, log, success_count, error_count,
                   exit_code, requests, arg>>

SpecToTestPath == InitToTestPath /\ [][CallToTestPath]_vars

RECURSIVE Flatten(_)
Flatten(pieces) ==
    IF pieces = <<>> THEN <<>> ELSE Head(pieces) \o Flatten(Tail(pieces))

\* what the texts are made of: a backquote, a fence, the word python, white
\* space, other text
Pieces == {<<BQ>>, FENCE, <<"python">>, <<" ">>, <<"x">>}

\* the response of the end-to-end scenario
Scenario2 ==
    <<"Here:", "\n">> \o PYFENCE \o <<"\n", "def test_x(): pass", "\n">> \o FENCE

\* every text of at most MaxPieces pieces
Texts ==
    {Flatten(ps) : ps \in UNION {[1..n -> Pieces] : n \in 0..MaxPieces}}
    \cup {Scenario2}

InitExtract ==
    /\ pc = "call"
    /\ arg \in Texts
    /\ ret = <<>>
    /\ NoRun

CallExtract ==
    /\ pc = "call"
    /\ pc' = "returned"
    /\ ret' = extract_code_from_response(arg)
    /\ UNCHANGED <<tree, fs, dirs, py_files, todo, log, success_count, error_count,
                   exit_code, requests, arg>>

SpecExtract == InitExtract /\ [][CallExtract]_vars

(***************************************************************************)
(* Notions the properties are stated with, defined on positions of the     *)
(* text rather than with the operations of the code.                       *)
(***************************************************************************)
\* the 1-based positions where pat occurs in s
Occ(s, pat) == {i \in 1..(Len(s) - Len(pat) + 1) : SubSeq(s, i, i + Len(pat) - 1) = pat}

Min(S) == CHOOSE x \in S : \A y \in S : x <= y

Max(S) == CHOOSE x \in S : \A y \in S : x >= y

\* the least element of S that is at least n, or dflt
FirstAtOrAfter(S, n, dflt) ==
    IF {x \in S : x >= n} = {} THEN dflt ELSE Min({x \in S : x >= n})

\* s without its leading and trailing white space
Trimmed(s) ==
    LET inked == {i \in 1..Len(s) : s[i] \notin Whitespace}
    IN  IF inked = {} THEN <<>> ELSE SubSeq(s, Min(inked), Max(inked))

\* the components of a path: the maximal runs without a separator
ComponentAt(p, i, j) ==
    /\ 1 <= i /\ i <= j + 1 /\ j <= Len(p)
    /\ i = 1 \/ p[i - 1] = SEP
    /\ j = Len(p) \/ p[j + 1] = SEP
    /\ \A k \in i..j : p[k] # SEP

HasComponent(p, w) ==
    \E i \in 1..(Len(p) + 1) : ComponentAt(p, i, i + Len(w) - 1) /\ SubSeq(p, i, i + Len(w) - 1) = w

HasComponentWithPrefix(p, w) ==
    \E i \in 1..(Len(p) + 1) : \E j \in (i + Len(w) - 1)..Len(p) :
        ComponentAt(p, i, j) /\ SubSeq(p, i, i + Len(w) - 1) = w

LastComponentHasPrefix(p, w) ==
    \E i \in 1..(Len(p) + 1) : ComponentAt(p, i, Len(p)) /\ StartsWith(From(p, i - 1), w)

RECURSIVE Components(_)
Components(p) ==
    IF \A i \in 1..Len(p) : p[i] # SEP THEN <<p>>
    ELSE LET i == Min({k \in 1..Len(p) : p[k] = SEP})
         IN  <<SubSeq(p, 1, i - 1)>> \o Components(SubSeq(p, i + 1, Len(p)))

(***************************************************************************)
(* C5.  For every relative source path p, to_test_path(p) is               *)
(* tests/<dir>/test_<file>, where <dir>/<file> is p without one leading    *)
(* "src/" if it has one and p itself otherwise; the result starts with     *)
(* "tests/", and a p without directory part maps directly under tests.     *)
(***************************************************************************)
ExpectedTestPath(p) ==
    LET c == Components(p)
        rel == IF Len(c) > 1 /\ c[1] = w_src THEN Tail(c) ELSE c
    IN  PathOf(<<w_tests>> \o SubSeq(rel, 1, Len(rel) - 1) \o <<w_test_ \o rel[Len(rel)]>>)

C5_ToTestPath ==
    pc = "returned" =>
        /\ ret = ExpectedTestPath(arg)
        /\ StartsWith(ret, w_tests \o <<SEP>>)
        /\ Len(Components(arg)) = 1 => Len(Components(ret)) = 2

\* src/src/mod.py has been mapped to tests/src/test_mod.py
C5_Witness ==
    /\ pc = "returned"
    /\ arg = PathOf(<<w_src, w_src, w_mod_py>>)
    /\ ret = PathOf(<<w_tests, w_src, w_test_mod_py>>)

\* src/pkg/mod.py has been mapped to tests/pkg/test_mod.py
C5_Scenario1 ==
    /\ pc = "returned"
    /\ arg = PathOf(<<w_src, w_pkg, w_mod_py>>)
    /\ ret = PathOf(<<w_tests, w_pkg, w_test_mod_py>>)

(***************************************************************************)
(* C6.  extract_code_from_response is total and works as a cascade: with   *)
(* a tagged fenced block in the text it returns the trimmed interior of    *)
(* the block; else, with a fence in the text, the trimmed first enclosed   *)
(* segment; else the trimmed text; the empty text gives the empty text.    *)
(***************************************************************************)
\* the position after the first tagged marker
AfterTagged(s) == Min(Occ(s, PYFENCE)) + Len(PYFENCE)

\* the position after the first fence
AfterFence(s) == Min(Occ(s, FENCE)) + Len(FENCE)

\* the text from position a up to the first fence at or after a (or to the end)
UpToNextFence(s, a) == SubSeq(s, a, FirstAtOrAfter(Occ(s, FENCE), a, Len(s) + 1) - 1)

\* C6 as claimed: the tagged block ends at the first fence after its marker, and
\* the result is the trimmed text between the two
C6_Claimed ==
    pc = "returned" =>
        /\ ret \in Seq({arg[i] : i \in 1..Len(arg)})
        /\ IF Occ(arg, PYFENCE) # {}
           THEN {j \in Occ(arg, FENCE) : j >= AfterTagged(arg)} # {}
                    => ret = Trimmed(UpToNextFence(arg, AfterTagged(arg)))
           ELSE IF Occ(arg, FENCE) # {}
           THEN ret = Trimmed(UpToNextFence(arg, AfterFence(arg)))
           ELSE ret = Trimmed(arg)
        /\ arg = <<>> => ret = <<>>

\* the text after the first tagged marker, cut at the next tagged marker and
\* then at the first fence that lies wholly before that cut
TaggedInterior(s) ==
    LET a == AfterTagged(s)
        k == FirstAtOrAfter(Occ(s, PYFENCE), a, Len(s) + 1)
        e == FirstAtOrAfter({j \in Occ(s, FENCE) : j + Len(FENCE) <= k}, a, k)
    IN  SubSeq(s, a, e - 1)

\* C6, amended.  The cascade as the code has it: with a tagged marker in the
\* text the result is the trimmed text after the first marker up to the first
\* fence that ends before the next tagged marker begins (up to that marker, or
\* the end, when there is none), so a closing fence that runs into a later
\* tagged marker does not close the block; the other cases are as in C6.
C6_Extract ==
    pc = "returned" =>
        /\ ret \in Seq({arg[i] : i \in 1..Len(arg)})
        /\ IF Occ(arg, PYFENCE) # {}
           THEN ret = Trimmed(TaggedInterior(arg))
           ELSE IF Occ(arg, FENCE) # {}
           THEN ret = Trimmed(UpToNextFence(arg, AfterFence(arg)))
           ELSE ret = Trimmed(arg)
        /\ arg = <<>> => ret = <<>>

\* the response of the end-to-end scenario has given "def test_x(): pass"
C6_Witness ==
    /\ pc = "returned"
    /\ arg = Scenario2
    /\ ret = <<"def test_x(): pass">>

(***************************************************************************)
(* Notions of a run.                                                       *)
(***************************************************************************)
Iterations == 1..Len(log)

FailedIterations == {i \in Iterations : log[i].outcome # "success"}

SucceededIterations == {i \in Iterations : log[i].outcome = "success"}

\* the files of the working tree are those of the start, untouched
TreeUntouched == fs = [p \in tree |-> ORIGINAL] /\ dirs = DirsOf(tree)

\* the code of the response of iteration i
CodeOf(i) == extract_code_from_response(log[i].response)

(***************************************************************************)
(* C1.  Once the client is built, the process exits with 1 if and only if  *)
(* the processing of at least one discovered file failed, and with 0 when  *)
(* every file succeeded and when no file was found.                        *)
(***************************************************************************)
C1_ExitCode ==
    pc = "done" =>
        /\ exit_code \in {0, 1}
        /\ exit_code = 1 <=> \E f \in py_files : \E i \in FailedIterations : log[i].file = f
        /\ py_files = {} => exit_code = 0
        /\ (py_files # {} /\ FailedIterations = {}) => exit_code = 0

\* a run has ended with status 1 after one file succeeded and one failed
C1_Witness ==
    /\ pc = "done"
    /\ exit_code = 1
    /\ SucceededIterations # {}
    /\ FailedIterations # {}

\* a run in which every file succeeded has ended with status 0
C1_WitnessAllSucceeded ==
    /\ pc = "done"
    /\ exit_code = 0
    /\ Cardinality(SucceededIterations) >= 2

(***************************************************************************)
(* C2.  Failure isolation: an iteration that raises is recorded as one     *)
(* failure and the loop goes on with the next file; every discovered file  *)
(* is attempted exactly once, and at the summary                           *)
(* success_count + error_count is the number of discovered files.          *)
(***************************************************************************)
C2_FailureIsolation ==
    pc \in {"loop", "done"} /\ py_files # {} =>
        /\ \A i \in Iterations : log[i].file \in py_files
        /\ \A i, j \in Iterations : log[i].file = log[j].file => i = j
        /\ {todo[k] : k \in 1..Len(todo)} = py_files \ {log[i].file : i \in Iterations}
        /\ Len(todo) = Cardinality(py_files) - Len(log)
        /\ success_count = Cardinality(SucceededIterations)
        /\ error_count = Cardinality(FailedIterations)
        /\ todo # <<>> => pc = "loop"
        /\ pc = "done" =>
              /\ todo = <<>>
              /\ success_count + error_count = Cardinality(py_files)

\* of two files, the request for the first raised and the second succeeded:
\* one success, one failure, status 1
C2_Witness ==
    /\ pc = "done"
    /\ Cardinality(py_files) = 2
    /\ Len(log) = 2
    /\ log[1].outcome = "request_error"
    /\ log[2].outcome = "success"
    /\ success_count = 1
    /\ error_count = 1
    /\ exit_code = 1

(***************************************************************************)
(* C3.  When no file is found the run ends with status 0 and has issued no *)
(* request, made no directory and written no file.                         *)
(***************************************************************************)
C3_EmptyDiscovery ==
    (pc \notin {"init", "discover", "exit_connect"} /\ py_files = {}) =>
        /\ pc = "done"
        /\ exit_code = 0
        /\ log = <<>>
        /\ \A f \in DOMAIN requests : requests[f] = 0
        /\ TreeUntouched

\* a run over a tree that holds files, none of them selected, has ended
C3_Witness ==
    /\ pc = "done"
    /\ py_files = {}
    /\ tree # {}
    /\ Candidates(tree) # {}
    /\ exit_code = 0

(***************************************************************************)
(* C4.  No selected path has a component tests, venv, .venv, env, .env,    *)
(* build, dist or __pycache__, or a component that starts with a dot, or a *)
(* base name that starts with test_, whichever glob produced it; every     *)
(* selected path ends in .py.                                              *)
(***************************************************************************)
C4_Selection ==
    \A p \in py_files :
        /\ \A w \in ExcludedNames : ~HasComponent(p, w)
        /\ ~HasComponentWithPrefix(p, <<".">>)
        /\ ~LastComponentHasPrefix(p, w_test_)
        /\ EndsWith(p, w_dotpy)
        /\ p \in tree

\* files were selected from a tree in which the glob under src/ and the
\* recursive glob from the root also produced paths that are excluded
C4_Witness ==
    /\ pc = "loop"
    /\ py_files # {}
    /\ GlobSrcRecursive(tree) \ py_files # {}
    /\ GlobRecursive(tree) \ (py_files \cup GlobSrcRecursive(tree)) # {}

(***************************************************************************)
(* C7.  A run never deletes or modifies a source file: every path it       *)
(* writes is the test path of a discovered file, no test path is a         *)
(* discovered file (it has the component tests), and every file of the     *)
(* tree that is no such test path keeps its content.                       *)
(***************************************************************************)
C7_SourcesUntouched ==
    LET testPaths == {to_test_path(f) : f \in py_files}
    IN  /\ \A p \in DOMAIN fs : (p \notin tree \/ fs[p] # ORIGINAL) => p \in testPaths
        /\ \A p \in testPaths : p \notin py_files /\ HasComponent(p, w_tests)
        /\ \A p \in tree : p \in DOMAIN fs
        /\ \A p \in py_files : fs[p] = ORIGINAL

\* a run has ended after it wrote two test files, one over an existing file
C7_Witness ==
    /\ pc = "done"
    /\ \E p \in tree : fs[p] # ORIGINAL
    /\ \E p \in DOMAIN fs : p \notin tree
    /\ py_files # {}

(***************************************************************************)
(* C8.  The files are processed one at a time in ascending lexicographic   *)
(* order of path; when two sources map to one test path the later one      *)
(* overwrites the output of the earlier one, so that each test path holds  *)
(* the code of the last source mapping to it whose write succeeded, and    *)
(* both sources count as successes.                                        *)
(***************************************************************************)
ProcessedInOrder == \A i, j \in Iterations : i < j => StrLess(log[i].file, log[j].file)

\* the iterations for test path d that opened it for writing
Writers(d) ==
    {i \in Iterations : to_test_path(log[i].file) = d
                        /\ log[i].outcome \in {"success", "write_error"}}

\* C8 as claimed: in order, and at the end each test path holds the code of the
\* last source mapping to it whose write succeeded
C8_Claimed ==
    /\ ProcessedInOrder
    /\ success_count = Cardinality(SucceededIterations)
    /\ pc = "done" =>
          \A d \in {to_test_path(log[i].file) : i \in SucceededIterations} :
              fs[d] = CodeOf(Max({i \in SucceededIterations : to_test_path(log[i].file) = d}))

\* C8, amended.  In order, and each test path holds what the last source that
\* opened it for writing left there: its code when the write succeeded, a proper
\* prefix of its code when f.write raised after open() truncated the file,
\* whatever an earlier source had written; a path no source opened is as before
\* the run.
C8_Overwrite ==
    /\ ProcessedInOrder
    /\ success_count = Cardinality(SucceededIterations)
    /\ \A d \in {to_test_path(f) : f \in py_files} :
          IF Writers(d) = {}
          THEN /\ d \in DOMAIN fs <=> d \in tree
               /\ d \in tree => fs[d] = ORIGINAL
          ELSE LET i == Max(Writers(d))
               IN  IF log[i].outcome = "success"
                   THEN fs[d] = CodeOf(i)
                   ELSE /\ Len(fs[d]) < Len(CodeOf(i))
                        /\ fs[d] = UpTo(CodeOf(i), Len(fs[d]))

\* two sources that map to one test path both succeeded with different code;
\* the path holds the code of the second, and both are counted
C8_Witness ==
    /\ pc = "done"
    /\ Len(log) = 2
    /\ SucceededIterations = {1, 2}
    /\ to_test_path(log[1].file) = to_test_path(log[2].file)
    /\ CodeOf(1) # CodeOf(2)
    /\ fs[to_test_path(log[2].file)] = CodeOf(2)
    /\ success_count = 2

(***************************************************************************)
(* C9.  For each discovered file the run issues at most one request to the *)
(* service, exactly one when the source was read, whether or not the test  *)
(* file exists already; a failed request is not retried: the file is       *)
(* recorded as failed and the loop moves on.                               *)
(***************************************************************************)
C9_OneRequest ==
    /\ \A f \in DOMAIN requests : requests[f] <= 1
    /\ \A i \in Iterations :
          /\ requests[log[i].file] = IF log[i].outcome = "read_error" THEN 0 ELSE 1
          /\ log[i].outcome = "request_error" =>
                /\ i \in FailedIterations
                /\ log[i].response = NoResponse
                /\ \A k \in 1..Len(todo) : todo[k] # log[i].file
    /\ \A k \in 1..Len(todo) : requests[todo[k]] = 0
    /\ error_count = Cardinality(FailedIterations)

\* a request failed, and the loop went on to a file whose test file existed
\* before the run, for which one request was issued
C9_Witness ==
    \E i, j \in Iterations :
        /\ i < j
        /\ log[i].outcome = "request_error"
        /\ requests[log[i].file] = 1
        /\ log[j].outcome = "success"
        /\ to_test_path(log[j].file) \in tree
        /\ requests[log[j].file] = 1

(***************************************************************************)
(* C10.  An iteration that fails before the write step (the read of the    *)
(* source, the request or the extraction raises) leaves the files and the  *)
(* directories of the tree and success_count as they were; success_count   *)
(* goes up, by one, only in an iteration that has written its test file.   *)
(***************************************************************************)
EarlyFailures == {"read_error", "request_error", "extract_error"}

C10_FailureBeforeWrite ==
    [][/\ (log' # log /\ log'[Len(log')].outcome \in EarlyFailures) =>
              /\ fs' = fs
              /\ dirs' = dirs
              /\ success_count' = success_count
       /\ success_count' # success_count =>
              /\ success_count' = success_count + 1
              /\ log' = Append(log, log'[Len(log')])
              /\ log'[Len(log')].outcome = "success"
              /\ log'[Len(log')].file = Head(todo)
              /\ to_test_path(Head(todo)) \in DOMAIN fs'
              /\ fs'[to_test_path(Head(todo))] =
                     extract_code_from_response(log'[Len(log')].response)
      ]_vars

\* after a file was written, the request for the next file raised and the
\* extraction for the one after it raised
C10_Witness ==
    /\ Len(log) = 3
    /\ log[1].outcome = "success"
    /\ log[2].outcome = "request_error"
    /\ log[3].outcome = "extract_error"
    /\ success_count = 1

====
